---- MODULE Spec2Model ----
(***************************************************************************)
(* The two demo executables of vsgExamples/Desktop:                        *)
(*   vsginput       KeyboardInput (an event visitor holding a text buffer  *)
(*                  and two "needs rebuild" flags) and the frame loop of   *)
(*                  main() that resets and recompiles when asked to;       *)
(*   vsgraytracing  createImageView() and the fixed resource set-up        *)
(*                  sequence of main().                                    *)
(* One behaviour is one run of one of the two executables.                 *)
(***************************************************************************)
EXTENDS Integers, Sequences, FiniteSets, TLC

VARIABLES
    prog,                    \* which executable runs
    pc,                      \* position in main() (and in createImageView)
    exitStatus,              \* <<>> while main() runs, <<n>> once it has returned n
    argErrors,               \* arguments.errors()
    window,                  \* "none" before vsg::Window::create, then Null or "window"
    out,                     \* what was printed to std::cout, in order
    extent,                  \* <<width, height>> read from the command line
    enteredLoop,             \* the while condition of the frame loop was evaluated
    \* ---- vsginput: KeyboardInput and what it drives
    text,                    \* _keyboardInputText's string, a sequence of chars
    _shouldRecompile,
    _shouldReleaseViewport,
    textPosition,            \* _keyboardInputText's position
    projection,              \* the camera's orthographic projection
    event,                   \* the event handleEvents() dispatched last
    pipeline,                \* the text group's graphics pipeline implementation
    uncompiledText,          \* setText() was called since the last viewer->compile()
    configuredSinceReset,    \* a ConfigureWindowEvent was applied since the last reset()
    \* ---- vsgraytracing
    shaders,                 \* [raygen, miss, closesthit]: "none" before the read, then Null or "shader"
    steps,                   \* the resource set-up calls made so far, in order
    deviceMemory,            \* reserveMemory()'s result: Null or a device memory
    offset,                  \* reserveMemory()'s offset
    imageBinding,            \* <<memory, offset>> the image is bound to, or <<>>
    imageView,               \* the ImageView created by createImageView, or Null
    storageImageData         \* what createImageView returned to main()

vars == <<prog, pc, exitStatus, argErrors, window, out, extent, enteredLoop,
          text, _shouldRecompile, _shouldReleaseViewport, textPosition,
          projection, event, pipeline, uncompiledText, configuredSinceReset,
          shaders, steps, deviceMemory, offset, imageBinding, imageView,
          storageImageData>>

inputVars == <<text, _shouldRecompile, _shouldReleaseViewport, textPosition,
               projection, event, pipeline, uncompiledText, configuredSinceReset>>

rtVars == <<shaders, steps, deviceMemory, offset, imageBinding, imageView,
            storageImageData>>

(***************************************************************************)
(* Bounds of the model.                                                    *)
(***************************************************************************)
\* at most this many typed characters (beyond what is left of the sample
\* text) are in the buffer at a time
MaxTyped == 2
\* reserveMemory() returns an offset in 0..MaxOffset
MaxOffset == 1

(***************************************************************************)
(* Values.                                                                 *)
(***************************************************************************)
Null == "null"

\* vsg::KeySymbol values (16 bit), the ones the code names and three others
KEY_a == 97
KEY_A == 65
KEY_BackSpace == 65288
KEY_Return == 65293
KEY_Escape == 65307
KEY_Shift_L == 65505
KEY_Control_L == 65507
KEY_Hyper_R == 65518

\* '\n'
NewLine == 10

\* std::string sampletext = "Cheese!"
sampletext == <<67, 104, 101, 101, 115, 101, 33>>
fontheight == 50

\* the window sizes a run may be given or be resized to
Sizes == {<<800, 600>>, <<400, 300>>}

KeyBases == {KEY_a, KEY_Escape, KEY_BackSpace, KEY_Return,
             KEY_Shift_L, KEY_Control_L, KEY_Hyper_R}

\* keyModified is the key itself, or what a held modifier turns it into
KeyModifieds(kb) == {kb, KEY_A}

NoEvent == [type |-> "none"]
ConfigureWindowEvent(sz) == [type |-> "ConfigureWindowEvent", width |-> sz[1], height |-> sz[2]]
KeyPressEvent(kb, km) == [type |-> "KeyPressEvent", keyBase |-> kb, keyModified |-> km]

(***************************************************************************)
(* Helpers of KeyboardInput.                                               *)
(***************************************************************************)
\* textstr += keyPress.keyModified converts the 16 bit KeySymbol to a char
ToChar(k) == k % 256

\* textstr.substr(0, n)
substr0(s, n) == SubSeq(s, 1, n)

\* a mutant: the ends of the range are left out
IsModifierKey_Exclusive(kb) == kb > KEY_Shift_L /\ kb < KEY_Hyper_R

\* keyBase >= KEY_Shift_L && keyBase <= KEY_Hyper_R
IsModifierKey(kb) == kb >= KEY_Shift_L /\ kb <= KEY_Hyper_R

\* vsg::vec3(-(width*0.5f), (height*0.5f) - fontheight, 0.0f)
TextPositionFor(w, h) == <<-(w \div 2), (h \div 2) - fontheight>>

\* vsg::Orthographic(-(width*0.5f), (width*0.5f), -(height*0.5f), (height*0.5f), 0.1, 10.0)
OrthographicFor(w, h) == <<-(w \div 2), w \div 2, -(h \div 2), h \div 2>>

\* the characters of s that are not what is left of the sample text
RECURSIVE CommonPrefixLen(_, _)
CommonPrefixLen(s, t) ==
    IF s = <<>> \/ t = <<>> \/ Head(s) # Head(t) THEN 0
    ELSE 1 + CommonPrefixLen(Tail(s), Tail(t))

TypedCount(s) == Len(s) - CommonPrefixLen(s, sampletext)

(***************************************************************************)
(* KeyboardInput::apply(vsg::KeyPressEvent&): the text, the recompile flag *)
(* after the call and whether setText() was called, from the text and the  *)
(* flag before it.  The three cases, then the handler.                     *)
(***************************************************************************)
\* a mutant: the empty check is missing, and size() - 1 wraps around
BackSpace_NoEmptyCheck(textstr, recompile) ==
    [text |-> IF Len(textstr) = 0 THEN textstr
              ELSE SubSeq(textstr, 1, Len(textstr) - 1),
     recompile |-> TRUE, set |-> TRUE]

\* a mutant: the flag is not raised
BackSpace_NoRecompile(textstr, recompile) ==
    IF Len(textstr) = 0
    THEN [text |-> textstr, recompile |-> recompile, set |-> FALSE]
    ELSE [text |-> SubSeq(textstr, 1, Len(textstr) - 1),
          recompile |-> recompile, set |-> TRUE]

\* if (keyPress.keyBase == vsg::KeySymbol::KEY_BackSpace) { ... }
BackSpace(textstr, recompile) ==
    IF Len(textstr) = 0
    THEN [text |-> textstr, recompile |-> recompile, set |-> FALSE]
    ELSE [text |-> substr0(textstr, Len(textstr) - 1), recompile |-> TRUE, set |-> TRUE]

\* if (keyPress.keyBase == vsg::KeySymbol::KEY_Return) { ... }
Return(textstr) ==
    [text |-> textstr \o <<NewLine>>, recompile |-> TRUE, set |-> TRUE]

\* a mutant: the unmodified key is appended
TypeCharacter_KeyBase(textstr, keyPress) ==
    [text |-> textstr \o <<ToChar(keyPress.keyBase)>>, recompile |-> TRUE, set |-> TRUE]

\* textstr += keyPress.keyModified; setText(textstr); _shouldRecompile = true;
TypeCharacter(textstr, keyPress) ==
    [text |-> textstr \o <<ToChar(keyPress.keyModified)>>, recompile |-> TRUE, set |-> TRUE]

\* a mutant: no case for KEY_Return, which is then typed like any key
ApplyKeyPress_NoReturnCase(textstr, recompile, keyPress) ==
    IF IsModifierKey(keyPress.keyBase)
    THEN [text |-> textstr, recompile |-> recompile, set |-> FALSE]
    ELSE IF keyPress.keyBase = KEY_BackSpace
    THEN BackSpace(textstr, recompile)
    ELSE TypeCharacter(textstr, keyPress)

ApplyKeyPress(textstr, recompile, keyPress) ==
    IF IsModifierKey(keyPress.keyBase)
    THEN [text |-> textstr, recompile |-> recompile, set |-> FALSE]
    ELSE IF keyPress.keyBase = KEY_BackSpace
    THEN BackSpace(textstr, recompile)
    ELSE IF keyPress.keyBase = KEY_Return
    THEN Return(textstr)
    ELSE TypeCharacter(textstr, keyPress)

(***************************************************************************)
(* The initial state: main() is about to start.                            *)
(***************************************************************************)
Init ==
    /\ prog \in {"vsginput", "vsgraytracing"}
    /\ pc = "parseArgs"
    /\ exitStatus = <<>>
    /\ argErrors = FALSE
    /\ window = "none"
    /\ out = <<>>
    /\ extent = <<0, 0>>
    /\ enteredLoop = FALSE
    /\ text = <<>>
    /\ _shouldRecompile = FALSE
    /\ _shouldReleaseViewport = FALSE
    /\ textPosition = <<0, 0>>
    /\ projection = <<0, 0, 0, 0>>
    /\ event = NoEvent
    /\ pipeline = "none"
    /\ uncompiledText = FALSE
    /\ configuredSinceReset = FALSE
    /\ shaders = [raygen |-> "none", miss |-> "none", closesthit |-> "none"]
    /\ steps = <<>>
    /\ deviceMemory = Null
    /\ offset = 0
    /\ imageBinding = <<>>
    /\ imageView = Null
    /\ storageImageData = Null

(***************************************************************************)
(* KeyboardInput::reset(): the two flags and the pipeline after the call.  *)
(***************************************************************************)
\* a mutant: the pipeline is released whether or not a viewport change asked for it
Reset_AlwaysReleases(releaseViewport, pipe) ==
    [recompile |-> FALSE, releaseViewport |-> FALSE, pipeline |-> "released"]

\* a mutant: _shouldReleaseViewport is not lowered
Reset_KeepsReleaseFlag(releaseViewport, pipe) ==
    [recompile |-> FALSE,
     releaseViewport |-> releaseViewport,
     pipeline |-> IF releaseViewport THEN "released" ELSE pipe]

Reset(releaseViewport, pipe) ==
    [recompile |-> FALSE,
     releaseViewport |-> FALSE,
     pipeline |-> IF releaseViewport THEN "released" ELSE pipe]

(***************************************************************************)
(* KeyboardInput::apply(vsg::ConfigureWindowEvent&): the projection, the   *)
(* text position and the two flags after the call.                         *)
(***************************************************************************)
\* a mutant: only the viewport flag is raised
ApplyConfigure_NoRecompile(width, height) ==
    [projection |-> OrthographicFor(width, height),
     textPosition |-> TextPositionFor(width, height),
     recompile |-> FALSE,
     releaseViewport |-> TRUE]

ApplyConfigure(width, height) ==
    [projection |-> OrthographicFor(width, height),
     textPosition |-> TextPositionFor(width, height),
     recompile |-> TRUE,
     releaseViewport |-> TRUE]

\* what arguments.writeErrorMessages(std::cerr) may return: the value is the
\* library's, main() passes it on as the exit status
WriteErrorMessagesResults == {0, 1}

(***************************************************************************)
(* vsginput: main().                                                       *)
(***************************************************************************)
Input_ParseArgs ==
    /\ prog = "vsginput" /\ pc = "parseArgs"
    /\ \E sz \in Sizes, errors \in BOOLEAN, r \in WriteErrorMessagesResults :
          /\ extent' = sz
          /\ argErrors' = errors
          /\ IF errors
             THEN /\ out' = Append(out, "cerr: argument errors")
                  /\ exitStatus' = <<r>>
                  /\ pc' = "exited"
             ELSE /\ r = 0
                  /\ UNCHANGED <<out, exitStatus>>
                  /\ pc' = "createWindow"
    /\ UNCHANGED <<prog, window, enteredLoop, inputVars, rtVars>>

Input_CreateWindow ==
    /\ prog = "vsginput" /\ pc = "createWindow"
    /\ \E created \in {Null, "window"} :
          /\ window' = created
          /\ IF created = Null
             THEN /\ out' = Append(out, "Could not create windows.")
                  /\ exitStatus' = <<1>>
                  /\ pc' = "exited"
             ELSE /\ UNCHANGED <<out, exitStatus>>
                  /\ pc' = "setup"
    /\ UNCHANGED <<prog, argErrors, extent, enteredLoop, inputVars, rtVars>>

\* the camera, the stage and the KeyboardInput constructor
Input_Setup ==
    /\ prog = "vsginput" /\ pc = "setup"
    /\ projection' = OrthographicFor(extent[1], extent[2])
    /\ text' = sampletext
    /\ uncompiledText' = TRUE
    /\ textPosition' = TextPositionFor(extent[1], extent[2])
    /\ _shouldRecompile' = FALSE
    /\ _shouldReleaseViewport' = FALSE
    /\ pipeline' = "uncompiled"
    /\ pc' = "compile"
    /\ UNCHANGED <<prog, exitStatus, argErrors, window, out, extent, enteredLoop, event,
                   configuredSinceReset, rtVars>>

\* viewer->compile() before the loop
Input_Compile ==
    /\ prog = "vsginput" /\ pc = "compile"
    /\ pipeline' = "compiled"
    /\ uncompiledText' = FALSE
    /\ pc' = "advance"
    /\ UNCHANGED <<prog, exitStatus, argErrors, window, out, extent, enteredLoop, text,
                   _shouldRecompile, _shouldReleaseViewport, textPosition,
                   projection, event, configuredSinceReset, rtVars>>

\* while (viewer->advanceToNextFrame())
Input_Advance ==
    /\ prog = "vsginput" /\ pc = "advance"
    /\ enteredLoop' = TRUE
    /\ \E more \in BOOLEAN : pc' = IF more THEN "handleEvents" ELSE "finish"
    /\ UNCHANGED <<prog, exitStatus, argErrors, window, out, extent, inputVars, rtVars>>

\* viewer->handleEvents() hands a ConfigureWindowEvent to KeyboardInput
Input_DispatchConfigure ==
    /\ prog = "vsginput" /\ pc = "handleEvents"
    /\ \E sz \in Sizes :
          LET r == ApplyConfigure(sz[1], sz[2]) IN
          /\ event' = ConfigureWindowEvent(sz)
          /\ projection' = r.projection
          /\ textPosition' = r.textPosition
          /\ _shouldRecompile' = r.recompile
          /\ _shouldReleaseViewport' = r.releaseViewport
    /\ configuredSinceReset' = TRUE
    /\ UNCHANGED <<prog, pc, exitStatus, argErrors, window, out, extent, enteredLoop, text,
                   pipeline, uncompiledText, rtVars>>

\* viewer->handleEvents() hands a KeyPressEvent to KeyboardInput
Input_DispatchKeyPress ==
    /\ prog = "vsginput" /\ pc = "handleEvents"
    /\ \E kb \in KeyBases : \E km \in KeyModifieds(kb) :
          LET keyPress == KeyPressEvent(kb, km)
              r == ApplyKeyPress(text, _shouldRecompile, keyPress)
          IN
          /\ TypedCount(r.text) <= MaxTyped
          /\ event' = keyPress
          /\ text' = r.text
          /\ _shouldRecompile' = r.recompile
          /\ uncompiledText' = (uncompiledText \/ r.set)
    /\ UNCHANGED <<prog, pc, exitStatus, argErrors, window, out, extent, enteredLoop,
                   _shouldReleaseViewport, textPosition, projection, pipeline,
                   configuredSinceReset, rtVars>>

\* handleEvents() returns; if (keyboardInput->shouldRecompile())
Input_CheckRecompile ==
    /\ prog = "vsginput" /\ pc = "handleEvents"
    /\ event' = NoEvent
    /\ pc' = IF _shouldRecompile THEN "reset" ELSE "populate"
    /\ UNCHANGED <<prog, exitStatus, argErrors, window, out, extent, enteredLoop, text,
                   _shouldRecompile, _shouldReleaseViewport, textPosition,
                   projection, pipeline, uncompiledText, configuredSinceReset,
                   rtVars>>

\* keyboardInput->reset()
Input_Reset ==
    /\ prog = "vsginput" /\ pc = "reset"
    /\ LET r == Reset(_shouldReleaseViewport, pipeline) IN
          /\ _shouldRecompile' = r.recompile
          /\ _shouldReleaseViewport' = r.releaseViewport
          /\ pipeline' = r.pipeline
    /\ configuredSinceReset' = FALSE
    /\ pc' = "recompile"
    /\ UNCHANGED <<prog, exitStatus, argErrors, window, out, extent, enteredLoop, text,
                   textPosition, projection, event, uncompiledText, rtVars>>

\* viewer->compile() inside the loop
Input_Recompile ==
    /\ prog = "vsginput" /\ pc = "recompile"
    /\ pipeline' = "compiled"
    /\ uncompiledText' = FALSE
    /\ pc' = "populate"
    /\ UNCHANGED <<prog, exitStatus, argErrors, window, out, extent, enteredLoop, text,
                   _shouldRecompile, _shouldReleaseViewport, textPosition,
                   projection, event, configuredSinceReset, rtVars>>

\* viewer->populateNextFrame()
Input_Populate ==
    /\ prog = "vsginput" /\ pc = "populate"
    /\ pc' = "submit"
    /\ UNCHANGED <<prog, exitStatus, argErrors, window, out, extent, enteredLoop, inputVars, rtVars>>

\* viewer->submitNextFrame()
Input_Submit ==
    /\ prog = "vsginput" /\ pc = "submit"
    /\ pc' = "advance"
    /\ UNCHANGED <<prog, exitStatus, argErrors, window, out, extent, enteredLoop, inputVars, rtVars>>

\* the loop has ended: print the frame rate, return 0
Input_Finish ==
    /\ prog = "vsginput" /\ pc = "finish"
    /\ out' = Append(out, "avg fps")
    /\ exitStatus' = <<0>>
    /\ pc' = "exited"
    /\ UNCHANGED <<prog, argErrors, window, extent, enteredLoop, inputVars, rtVars>>

InputNext ==
    \/ Input_ParseArgs
    \/ Input_CreateWindow
    \/ Input_Setup
    \/ Input_Compile
    \/ Input_Advance
    \/ Input_DispatchConfigure
    \/ Input_DispatchKeyPress
    \/ Input_CheckRecompile
    \/ Input_Reset
    \/ Input_Recompile
    \/ Input_Populate
    \/ Input_Submit
    \/ Input_Finish

(***************************************************************************)
(* vsgraytracing: createImageView().                                       *)
(***************************************************************************)
\* vsg::ImageData(): no sampler, no image view
EmptyImageData ==
    [sampler |-> Null, imageView |-> Null, imageLayout |-> "VK_IMAGE_LAYOUT_UNDEFINED"]

\* vsg::ImageData(nullptr, imageview, targetImageLayout)
ImageData(sampler, view, layout) ==
    [sampler |-> sampler, imageView |-> view, imageLayout |-> layout]

\* the targetImageLayout main() asks for
TargetImageLayout == "VK_IMAGE_LAYOUT_GENERAL"

\* a mutant: no check of deviceMemory, the image is bound to whatever came back
CreateImageViewTail_NoNullCheck(memory, off, targetImageLayout) ==
    [printed |-> <<>>,
     calls |-> <<"Image::bind", "ImageView::create">>,
     binding |-> <<memory, off>>,
     view |-> "imageview",
     result |-> ImageData(Null, "imageview", targetImageLayout)]

\* what createImageView does once reserveMemory() has answered: the calls it
\* makes, the binding of the image, the view and the ImageData it returns
CreateImageViewTail(memory, off, targetImageLayout) ==
    IF memory = Null
    THEN [printed |-> <<"Warning: Failed allocate memory to reserve slot">>,
          calls |-> <<>>,
          binding |-> <<>>,
          view |-> Null,
          result |-> EmptyImageData]
    ELSE [printed |-> <<>>,
          calls |-> <<"Image::bind", "ImageView::create">>,
          binding |-> <<memory, off>>,
          view |-> "imageview",
          result |-> ImageData(Null, "imageview", targetImageLayout)]

\* image = vsg::Image::create(...); vkGetImageMemoryRequirements(...)
RT_CreateImage ==
    /\ prog = "vsgraytracing" /\ pc = "createImage"
    /\ steps' = Append(steps, "Image::create")
    /\ pc' = "reserveMemory"
    /\ UNCHANGED <<prog, exitStatus, argErrors, window, out, extent, enteredLoop, inputVars,
                   shaders, deviceMemory, offset, imageBinding, imageView,
                   storageImageData>>

\* auto[deviceMemory, offset] = ...->reserveMemory(...)
RT_ReserveMemory ==
    /\ prog = "vsgraytracing" /\ pc = "reserveMemory"
    /\ \E memory \in {Null, "deviceMemory"}, off \in 0..MaxOffset :
          /\ deviceMemory' = memory
          /\ offset' = off
    /\ steps' = Append(steps, "reserveMemory")
    /\ pc' = "afterReserve"
    /\ UNCHANGED <<prog, exitStatus, argErrors, window, out, extent, enteredLoop, inputVars,
                   shaders, imageBinding, imageView, storageImageData>>

\* the rest of createImageView, and the assignment to storageImageData
RT_FinishImageView ==
    /\ prog = "vsgraytracing" /\ pc = "afterReserve"
    /\ LET r == CreateImageViewTail(deviceMemory, offset, TargetImageLayout) IN
          /\ out' = out \o r.printed
          /\ steps' = steps \o r.calls
          /\ imageBinding' = r.binding
          /\ imageView' = r.view
          /\ storageImageData' = r.result
    /\ pc' = "descriptorLayout"
    /\ UNCHANGED <<prog, exitStatus, argErrors, window, extent, enteredLoop, inputVars, shaders,
                   deviceMemory, offset>>

(***************************************************************************)
(* vsgraytracing: main().                                                  *)
(***************************************************************************)
RT_ParseArgs ==
    /\ prog = "vsgraytracing" /\ pc = "parseArgs"
    /\ \E sz \in Sizes, errors \in BOOLEAN, r \in WriteErrorMessagesResults :
          /\ extent' = sz
          /\ argErrors' = errors
          /\ IF errors
             THEN /\ out' = Append(out, "cerr: argument errors")
                  /\ exitStatus' = <<r>>
                  /\ pc' = "exited"
             ELSE /\ r = 0
                  /\ UNCHANGED <<out, exitStatus>>
                  /\ pc' = "createWindow"
    /\ UNCHANGED <<prog, window, enteredLoop, inputVars, rtVars>>

RT_CreateWindow ==
    /\ prog = "vsgraytracing" /\ pc = "createWindow"
    /\ \E created \in {Null, "window"} :
          /\ window' = created
          /\ IF created = Null
             THEN /\ out' = Append(out, "Could not create windows.")
                  /\ exitStatus' = <<1>>
                  /\ pc' = "exited"
             ELSE /\ UNCHANGED <<out, exitStatus>>
                  /\ pc' = "loadShaders"
    /\ UNCHANGED <<prog, argErrors, extent, enteredLoop, inputVars, rtVars>>

\* a mutant: only the raygen shader is checked
RT_LoadShaders_ChecksRaygenOnly ==
    /\ prog = "vsgraytracing" /\ pc = "loadShaders"
    /\ \E raygenShader \in {Null, "shader"}, missShader \in {Null, "shader"},
          closesthitShader \in {Null, "shader"} :
          /\ shaders' = [raygen |-> raygenShader, miss |-> missShader,
                         closesthit |-> closesthitShader]
          /\ IF raygenShader = Null
             THEN /\ out' = Append(out, "Could not create shaders.")
                  /\ exitStatus' = <<1>>
                  /\ pc' = "exited"
             ELSE /\ UNCHANGED <<out, exitStatus>>
                  /\ pc' = "accelerationStructures"
    /\ UNCHANGED <<prog, argErrors, window, extent, enteredLoop, inputVars, steps, deviceMemory,
                   offset, imageBinding, imageView, storageImageData>>

\* the three vsg::ShaderStage::read calls and the null check
RT_LoadShaders ==
    /\ prog = "vsgraytracing" /\ pc = "loadShaders"
    /\ \E raygenShader \in {Null, "shader"}, missShader \in {Null, "shader"},
          closesthitShader \in {Null, "shader"} :
          /\ shaders' = [raygen |-> raygenShader, miss |-> missShader,
                         closesthit |-> closesthitShader]
          /\ IF raygenShader = Null \/ missShader = Null \/ closesthitShader = Null
             THEN /\ out' = Append(out, "Could not create shaders.")
                  /\ exitStatus' = <<1>>
                  /\ pc' = "exited"
             ELSE /\ UNCHANGED <<out, exitStatus>>
                  /\ pc' = "accelerationStructures"
    /\ UNCHANGED <<prog, argErrors, window, extent, enteredLoop, inputVars, steps, deviceMemory,
                   offset, imageBinding, imageView, storageImageData>>

\* one call of the set-up sequence of main(): at `at`, record `call`, go to `to`
RT_Call(at, call, to) ==
    /\ prog = "vsgraytracing" /\ pc = at
    /\ steps' = Append(steps, call)
    /\ pc' = to
    /\ UNCHANGED <<prog, exitStatus, argErrors, window, out, extent, enteredLoop, inputVars,
                   shaders, deviceMemory, offset, imageBinding, imageView,
                   storageImageData>>

RT_AccelerationStructures ==
    RT_Call("accelerationStructures", "TopLevelAccelerationStructure::create", "createImage")

RT_DescriptorLayout ==
    RT_Call("descriptorLayout", "DescriptorSetLayout::create", "pipeline")

\* a mutant: the descriptor set is not created
RT_Pipeline_NoDescriptorSet ==
    RT_Call("pipeline", "RayTracingPipeline::create", "commands")

RT_Pipeline ==
    RT_Call("pipeline", "RayTracingPipeline::create", "descriptorSet")

RT_DescriptorSet ==
    RT_Call("descriptorSet", "DescriptorSet::create", "commands")

RT_Commands ==
    RT_Call("commands", "Commands::addChild", "addStage")

RT_AddStage ==
    RT_Call("addStage", "Window::addStage", "compile")

RT_Compile ==
    RT_Call("compile", "Viewer::compile", "advance")

\* while (viewer->advanceToNextFrame())
RT_Advance ==
    /\ prog = "vsgraytracing" /\ pc = "advance"
    /\ enteredLoop' = TRUE
    /\ \E more \in BOOLEAN : pc' = IF more THEN "handleEvents" ELSE "finish"
    /\ UNCHANGED <<prog, exitStatus, argErrors, window, out, extent, inputVars, rtVars>>

\* one statement of the loop body, which changes nothing the model holds
RT_LoopStep(at, to) ==
    /\ prog = "vsgraytracing" /\ pc = at
    /\ pc' = to
    /\ UNCHANGED <<prog, exitStatus, argErrors, window, out, extent, enteredLoop, inputVars, rtVars>>

RT_HandleEvents == RT_LoopStep("handleEvents", "populate")

RT_Populate == RT_LoopStep("populate", "submit")

RT_Submit == RT_LoopStep("submit", "advance")

\* the loop has ended: return 0
RT_Finish ==
    /\ prog = "vsgraytracing" /\ pc = "finish"
    /\ exitStatus' = <<0>>
    /\ pc' = "exited"
    /\ UNCHANGED <<prog, argErrors, window, out, extent, enteredLoop, inputVars, rtVars>>

RTNext ==
    \/ RT_ParseArgs
    \/ RT_CreateWindow
    \/ RT_LoadShaders
    \/ RT_AccelerationStructures
    \/ RT_CreateImage
    \/ RT_ReserveMemory
    \/ RT_FinishImageView
    \/ RT_DescriptorLayout
    \/ RT_Pipeline
    \/ RT_DescriptorSet
    \/ RT_Commands
    \/ RT_AddStage
    \/ RT_Compile
    \/ RT_Advance
    \/ RT_HandleEvents
    \/ RT_Populate
    \/ RT_Submit
    \/ RT_Finish

Next == InputNext \/ RTNext

Spec == Init /\ [][Next]_vars

(***************************************************************************)
(* KeyboardInput under any sequence of calls: the runs of Spec, and in     *)
(* them reset() called at any point between two events, not only where     *)
(* main() calls it.                                                        *)
(***************************************************************************)
\* keyboardInput->reset(), called by anyone while events are handed over
Any_Reset ==
    /\ prog = "vsginput" /\ pc = "handleEvents"
    /\ LET r == Reset(_shouldReleaseViewport, pipeline) IN
          /\ _shouldRecompile' = r.recompile
          /\ _shouldReleaseViewport' = r.releaseViewport
          /\ pipeline' = r.pipeline
    /\ configuredSinceReset' = FALSE
    /\ event' = NoEvent
    /\ UNCHANGED <<prog, pc, exitStatus, argErrors, window, out, extent,
                   enteredLoop, text, textPosition, projection, uncompiledText,
                   rtVars>>

NextAnyCalls == Next \/ Any_Reset

SpecAnyCalls == Init /\ [][NextAnyCalls]_vars

(***************************************************************************)
(* The claims.                                                             *)
(***************************************************************************)
\* a step in which handleEvents() hands a KeyPressEvent to KeyboardInput;
\* event' is that event
KeyPressStep ==
    /\ prog = "vsginput" /\ pc = "handleEvents" /\ pc' = "handleEvents"
    /\ event'.type = "KeyPressEvent"

\* a step in which handleEvents() hands over a ConfigureWindowEvent
ConfigureStep ==
    /\ prog = "vsginput" /\ pc = "handleEvents" /\ pc' = "handleEvents"
    /\ event'.type = "ConfigureWindowEvent"

\* C1: a key press whose keyBase is no modifier key, not KEY_BackSpace and
\* not KEY_Return turns the text T into T followed by the one character
\* keyModified (as a char, its low 8 bits): one longer, the prefix T as it was.
C1_TypedCharacterIsAppended ==
    [][(/\ KeyPressStep
        /\ (event'.keyBase < KEY_Shift_L \/ event'.keyBase > KEY_Hyper_R)
        /\ event'.keyBase # KEY_BackSpace
        /\ event'.keyBase # KEY_Return)
       => /\ Len(text') = Len(text) + 1
          /\ SubSeq(text', 1, Len(text)) = text
          /\ text'[Len(text')] = event'.keyModified % 256
          /\ text'[Len(text')] \in 0..255]_vars

\* C1, its case: Escape was pressed on the sample text, and its character
\* (27) is at the end
C1_Witness ==
    /\ pc = "handleEvents"
    /\ event = KeyPressEvent(KEY_Escape, KEY_Escape)
    /\ text = sampletext \o <<27>>

\* C2: KEY_BackSpace on a non-empty text T removes exactly T's last
\* character; on an empty text it changes neither the text nor a flag.
C2_BackSpaceRemovesLast ==
    [][(KeyPressStep /\ event'.keyBase = KEY_BackSpace)
       => IF Len(text) > 0
          THEN /\ Len(text') = Len(text) - 1
               /\ text' = SubSeq(text, 1, Len(text) - 1)
          ELSE /\ text' = <<>>
               /\ _shouldRecompile' = _shouldRecompile
               /\ _shouldReleaseViewport' = _shouldReleaseViewport]_vars

\* C2, its case: BackSpace was pressed on the emptied buffer in a frame in
\* which nothing else happened, and no flag is up
C2_Witness ==
    /\ pc = "handleEvents"
    /\ event.type = "KeyPressEvent" /\ event.keyBase = KEY_BackSpace
    /\ text = <<>>
    /\ ~_shouldRecompile /\ ~_shouldReleaseViewport

\* C3: KEY_Return turns the text T into T followed by one newline, whatever
\* keyModified is, and a KEY_BackSpace applied to the result gives T back.
C3_ReturnAppendsNewLine ==
    [][(KeyPressStep /\ event'.keyBase = KEY_Return)
       => /\ text' = text \o <<NewLine>>
          /\ \A km \in KeyModifieds(KEY_BackSpace) :
                ApplyKeyPress(text', _shouldRecompile',
                              KeyPressEvent(KEY_BackSpace, km)).text = text]_vars

\* C3, its case: Return was pressed with keyModified 'A' on the sample
\* text, which now ends in a newline
C3_Witness ==
    /\ pc = "handleEvents"
    /\ event = KeyPressEvent(KEY_Return, KEY_A)
    /\ text = sampletext \o <<NewLine>>

\* C4: a key press that changes the text raises _shouldRecompile; when the
\* flag is up as handleEvents() returns, reset() and then viewer->compile()
\* run before populateNextFrame(), so no frame is populated while a text
\* change is still uncompiled.
C4_TextChangeIsCompiledBeforePopulate ==
    [][prog = "vsginput"
       => /\ (KeyPressStep /\ text' # text) => _shouldRecompile'
          /\ (pc = "handleEvents" /\ pc' # "handleEvents" /\ _shouldRecompile)
                => pc' = "reset"
          /\ pc = "reset" => pc' = "recompile"
          /\ pc = "recompile" => (pc' = "populate" /\ ~uncompiledText')
          /\ pc' \in {"populate", "submit"} => ~uncompiledText']_vars

\* C4, its case: a frame is about to be populated with a typed character in
\* the text, after the compile that followed it
C4_Witness ==
    /\ prog = "vsginput" /\ pc = "populate"
    /\ text = sampletext \o <<KEY_a>>
    /\ pipeline = "compiled"
    /\ ~uncompiledText

\* a shader that could not be read
NullShader == shaders.raygen = Null \/ shaders.miss = Null \/ shaders.closesthit = Null

\* one of the start-up failures the programs check for has happened
StartupFailure ==
    \/ argErrors
    \/ window = Null
    \/ NullShader

SetupOrder ==
    <<"Image::create", "Image::bind", "DescriptorSetLayout::create",
      "RayTracingPipeline::create", "DescriptorSet::create", "Commands::addChild">>

IsSetupCall(c) == \E i \in 1..Len(SetupOrder) : SetupOrder[i] = c

\* reserveMemory() returned no device memory
ReserveFailed ==
    /\ \E i \in 1..Len(steps) : steps[i] = "reserveMemory"
    /\ deviceMemory = Null

\* C6: in a run of vsgraytracing in which no set-up step fails, image
\* creation, memory binding, descriptor layout, pipeline, descriptor set
\* and command recording happen in this order and once each, all of them
\* before viewer->compile(), which is before the first frame-loop iteration.
C6_SetupOrder ==
    (prog = "vsgraytracing" /\ ~ReserveFailed)
       => /\ LET done == SelectSeq(steps, IsSetupCall) IN
                /\ Len(done) <= Len(SetupOrder)
                /\ done = SubSeq(SetupOrder, 1, Len(done))
          /\ \A i \in 1..Len(steps) :
                steps[i] = "Viewer::compile"
                   => /\ SelectSeq(SubSeq(steps, 1, i), IsSetupCall) = SetupOrder
                      /\ i = Len(steps)
          /\ enteredLoop => steps[Len(steps)] = "Viewer::compile"

\* C6, its case: the memory was reserved and the first iteration of the
\* loop has begun, after all six calls and the compile
C6_Witness ==
    /\ prog = "vsgraytracing" /\ pc = "handleEvents"
    /\ deviceMemory # Null
    /\ SelectSeq(steps, IsSetupCall) = SetupOrder
    /\ steps[Len(steps)] = "Viewer::compile"

\* C7: a key press whose keyBase is in KEY_Shift_L..KEY_Hyper_R changes
\* neither the text nor _shouldRecompile nor _shouldReleaseViewport.
C7_ModifierKeysIgnored ==
    [][(/\ KeyPressStep
        /\ event'.keyBase >= KEY_Shift_L
        /\ event'.keyBase <= KEY_Hyper_R)
       => /\ text' = text
          /\ _shouldRecompile' = _shouldRecompile
          /\ _shouldReleaseViewport' = _shouldReleaseViewport]_vars

\* C7, its case: Hyper_R was pressed with keyModified 'A' and the sample
\* text and the lowered flags are as they were
C7_Witness ==
    /\ pc = "handleEvents"
    /\ event = KeyPressEvent(KEY_Hyper_R, KEY_A)
    /\ text = sampletext
    /\ ~_shouldRecompile /\ ~_shouldReleaseViewport

\* C8: reset() lowers _shouldRecompile, releases the pipeline exactly when
\* _shouldReleaseViewport was up and lowers that flag; the pipeline is
\* released only by a reset() that follows a ConfigureWindowEvent since the
\* reset() before it, never by a key press; a ConfigureWindowEvent raises
\* both flags and leaves the text as it was.
C8_ReleaseOnlyAfterConfigure ==
    [][prog = "vsginput"
       => /\ pc = "reset"
             => /\ ~_shouldRecompile'
                /\ ~_shouldReleaseViewport'
                /\ pipeline' = IF _shouldReleaseViewport THEN "released" ELSE pipeline
          /\ (pipeline' = "released" /\ pipeline # "released")
                => (pc = "reset" /\ configuredSinceReset)
          /\ KeyPressStep
                => /\ pipeline' = pipeline
                   /\ _shouldReleaseViewport' = _shouldReleaseViewport
          /\ ConfigureStep
                => /\ _shouldRecompile'
                   /\ _shouldReleaseViewport'
                   /\ text' = text]_vars

\* C8, its case: reset() has just released the pipeline and lowered both
\* flags
C8_Witness ==
    /\ prog = "vsginput" /\ pc = "recompile"
    /\ pipeline = "released"
    /\ ~_shouldRecompile /\ ~_shouldReleaseViewport

\* the index of call c in steps, 0 when it was not made
IndexOf(c) ==
    IF \E i \in 1..Len(steps) : steps[i] = c
    THEN CHOOSE i \in 1..Len(steps) : steps[i] = c
    ELSE 0

\* createImageView has returned to main()
ImageViewReturned ==
    /\ prog = "vsgraytracing"
    /\ IndexOf("reserveMemory") > 0
    /\ pc # "afterReserve"

\* C9: when reserveMemory() gives no device memory, createImageView prints
\* the warning and returns an empty ImageData, binding nothing and creating
\* no ImageView; otherwise it binds the image to the reserved memory at the
\* returned offset, then creates the ImageView, and returns an ImageData
\* with that view and the requested layout.
C9_CreateImageView ==
    ImageViewReturned
       => IF deviceMemory = Null
          THEN /\ storageImageData.imageView = Null
               /\ storageImageData = EmptyImageData
               /\ out = <<"Warning: Failed allocate memory to reserve slot">>
               /\ imageBinding = <<>>
               /\ imageView = Null
               /\ IndexOf("Image::bind") = 0
               /\ IndexOf("ImageView::create") = 0
          ELSE /\ imageBinding = <<deviceMemory, offset>>
               /\ IndexOf("Image::bind") > IndexOf("reserveMemory")
               /\ IndexOf("ImageView::create") > IndexOf("Image::bind")
               /\ imageView # Null
               /\ storageImageData.imageView = imageView
               /\ storageImageData.imageLayout = TargetImageLayout
               /\ out = <<>>

\* C9, its case: no memory was reserved, and main() holds the empty
\* ImageData after the warning
C9_Witness ==
    /\ ImageViewReturned
    /\ deviceMemory = Null
    /\ storageImageData.imageView = Null
    /\ out = <<"Warning: Failed allocate memory to reserve slot">>

\* C10: an iteration of the vsginput loop is handleEvents, then reset and
\* compile if and only if shouldRecompile(), then populateNextFrame, then
\* submitNextFrame; at every populateNextFrame() both flags are down.
C10_FlagsDownAtPopulate ==
    [][prog = "vsginput"
       => /\ (pc = "handleEvents" /\ pc' # "handleEvents")
                => pc' = IF _shouldRecompile THEN "reset" ELSE "populate"
          /\ pc = "reset" => pc' = "recompile"
          /\ pc = "recompile" => pc' = "populate"
          /\ pc = "populate" => pc' = "submit"
          /\ pc = "submit" => pc' = "advance"
          /\ pc' = "populate"
                => (~_shouldRecompile' /\ ~_shouldReleaseViewport')]_vars

\* C10, its case: a frame is about to be populated after the window was
\* resized and the text edited, and both flags are down
C10_Witness ==
    /\ prog = "vsginput" /\ pc = "populate"
    /\ projection # OrthographicFor(extent[1], extent[2])
    /\ text = <<67, 104, 101, 101, 115, NewLine>>
    /\ ~_shouldRecompile /\ ~_shouldReleaseViewport

\* C11: in every state of KeyboardInput, whatever ConfigureWindowEvents,
\* KeyPressEvents and reset() calls came before, _shouldReleaseViewport
\* up implies _shouldRecompile up; so the frame loop, which calls reset()
\* only when shouldRecompile() holds, never goes on to populate a frame
\* with a release still pending.
C11_ReleaseImpliesRecompile ==
    prog = "vsginput"
       => /\ _shouldReleaseViewport => _shouldRecompile
          /\ pc \in {"populate", "submit", "advance"} => ~_shouldReleaseViewport

\* C11, its case: a key was pressed after a ConfigureWindowEvent, no reset()
\* since, and both flags are up
C11_Witness ==
    /\ prog = "vsginput" /\ pc = "handleEvents"
    /\ event.type = "KeyPressEvent"
    /\ configuredSinceReset
    /\ _shouldReleaseViewport /\ _shouldRecompile

====
